---- MODULE Spec2Model ----
(***************************************************************************)
(* Dual-provider LLM orchestration of hackiaton-server: LLMService         *)
(* (healthCheck, callOpenAI, callGemini, callLLM) and the agent request    *)
(* handlers that drive it.  One request is followed from the handler's     *)
(* own health check through the dispatcher to the HTTP response; every     *)
(* await on a provider is a separate step whose answer (success, failure,  *)
(* or no answer at all) is chosen by the environment.                      *)
(***************************************************************************)
EXTENDS Integers, Sequences, FiniteSets, TLC

\* number of requests served in one behaviour
MaxRequests == 2

Providers == {"openai", "gemini"}

\* PREFERRED_LLM_PROVIDER is cast, not validated: any other string is possible
PreferredValues == {"openai", "gemini", "other"}

\* handlers that use the LLM service
RequestKinds ==
  {"chat", "documentChat", "documentInsights", "comparisonInsights",
   "conversationChat", "health"}

\* what the environment does with one network call
Fates == {"ok", "fail", "hang"}

NoProvidersMessage == "No AI providers are available"
UnavailableMessage == "AI service is currently unavailable. Please try again later."
NoResponseText == "No response generated"

\* content a provider may put in a successful completion ("" = empty/missing)
Contents(p) == IF p = "openai" THEN {"", "openai-text"} ELSE {"", "gemini-text"}

Other(p) == IF p = "openai" THEN "gemini" ELSE "openai"

NotInitializedMessage(p) ==
  IF p = "openai" THEN "OpenAI not initialized" ELSE "Gemini not initialized"

ProviderErrorMessage(p) ==
  IF p = "openai" THEN "openai request failed" ELSE "gemini request failed"

\* req.body.message values; the second carries surrounding blanks
UserMessages == {"q1", " q2 "}

\* String schema option trim: true
Trim(str) ==
  CASE str = " q2 " -> "q2"
    [] str = " " -> ""
    [] OTHER -> str

\* a chat message as stored (IChatMessage)
StoredTurn(role, content, at) ==
  [role |-> role, content |-> Trim(content), timestamp |-> at]

\* messages of the conversation when the first request arrives: created
\* without or with an initial message
InitialStored ==
  {<<>>, <<StoredTurn("user", "q1", 0), StoredTurn("assistant", "openai-text", 0)>>}

\* conversation.messages.map(msg => ({ role: msg.role, content: msg.content }))
HistoryOf(msgs) ==
  [i \in 1..Len(msgs) |-> [role |-> msgs[i].role, content |-> msgs[i].content]]

\* the messages array a handler hands to the service
HandlerMessages(k, msgs, m) ==
  IF k = "conversationChat"
    THEN Append(HistoryOf(msgs), [role |-> "user", content |-> m])
    ELSE <<[role |-> "user", content |-> m]>>

\* callOpenAI: every message follows the system message
OpenAIRequestTurns(msgs) ==
  [i \in 1..Len(msgs) |-> [role |-> msgs[i].role, content |-> msgs[i].content]]

\* callGemini: the prompt carries the content of the last message only
GeminiRequestTurns(msgs) ==
  IF msgs = <<>> THEN <<[role |-> "user", content |-> ""]>>
  ELSE <<[role |-> "user", content |-> msgs[Len(msgs)].content]>>

RequestTurns(p, msgs) ==
  IF p = "openai" THEN OpenAIRequestTurns(msgs) ELSE GeminiRequestTurns(msgs)

VARIABLES
  client,             \* client[p]: this.openai / this.gemini is not null
  preferredProvider,  \* this.preferredProvider
  pc,                 \* position of the request being served
  kind,               \* which handler serves it
  hcCaller,           \* who awaits the running healthCheck
  hc,                 \* the `health` object healthCheck builds
  healthCheck,        \* the handler's `healthCheck` result
  health,             \* callLLM's `health` result
  inflight,           \* provider calls issued and not yet answered
  cur,                \* provider callLLM is invoking
  inTry,              \* the invocation is inside callLLM's try block
  dispatchResult,     \* what callLLM returned or threw
  response,           \* the HTTP response sent
  hcCount,            \* health checks run for this request, per caller
  pingLog,            \* pings of the running/last health check
  genLog,             \* generation requests of this dispatch
  served,             \* requests started so far
  stored,             \* conversation.messages as stored in the database
  message,            \* req.body.message of the request
  messages,           \* the messages array handed to the service
  pureOp,             \* service method applied to args, "none" before any
  args,               \* the arguments of that call
  output,             \* what the method built or returned, if it has run
  prev,               \* arguments and prompt of the previous prompt build
  calls,              \* service calls made so far (the passing of time)
  locale,             \* default locale of the process
  prompt,             \* system prompt and messages handed to callLLM
  conversations,      \* the conversations collection, by id
  requests,           \* conversation requests in flight, by slot
  opsStarted,         \* conversation requests received so far
  workspaces,         \* the workspaces collection, by id
  storedAnalyses,     \* the document analyses collection, in creation order
  analysisRequests,   \* analysis and agent requests in flight, by slot
  analysisOps         \* analysis and agent requests received so far

vars ==
  <<client, preferredProvider, pc, kind, hcCaller, hc, healthCheck, health,
    inflight, cur, inTry, dispatchResult, response, hcCount, pingLog, genLog,
    served, stored, message, messages,
    pureOp, args, output, prev, calls, locale, prompt,
    conversations, requests, opsStarted,
    workspaces, storedAnalyses, analysisRequests, analysisOps>>

\* state of the request-serving part
llmVars ==
  <<client, preferredProvider, pc, kind, hcCaller, hc, healthCheck, health,
    inflight, cur, inTry, dispatchResult, response, hcCount, pingLog, genLog,
    served, stored, message, messages>>

\* state of the service methods applied on their own
pureVars == <<pureOp, args, output, prev, calls, locale, prompt>>

\* state of the conversation handlers run side by side
convVars == <<conversations, requests, opsStarted>>

\* state of the analysis and agent handlers seen from the stores
storeVars == <<workspaces, storedAnalyses, analysisRequests, analysisOps>>

config == <<client, preferredProvider>>

NoAvail == [p \in Providers |-> FALSE]

\* health object as constructed at the top of healthCheck
InitialHealth(pref) ==
  [status |-> "unhealthy", preferredProvider |-> pref, avail |-> NoAvail]

\* no health result held yet
NoHealth == [status |-> "none", preferredProvider |-> "none", avail |-> NoAvail]

NoResult == [kind |-> "none", text |-> "", message |-> "", from |-> "none"]

NoResponse ==
  [code |-> 0, message |-> "", content |-> "", llmProvider |-> "none"]

\* variant: healthy only when both providers answer
HealthStatusOfBoth(av) ==
  IF av["openai"] /\ av["gemini"] THEN "healthy" ELSE "unhealthy"

\* "Determine overall health"
HealthStatusOf(av) ==
  IF av["openai"] \/ av["gemini"] THEN "healthy" ELSE "unhealthy"

\* available is set to true only after the awaited ping resolved
AvailableAfterPing(fate) == fate = "ok"

\* variant: the Gemini ping is awaited outside any try block
PingFailureUncaughtGemini(p) == p # "gemini"

\* the ping sits in a try block whose catch only logs
PingFailureCaught(p) == TRUE

\* variant: the content is returned as it came
InvokerTextRaw(content) == content

\* response.choices[0]?.message?.content || 'No response generated'
InvokerText(content) == IF content = "" THEN NoResponseText ELSE content

\* variant: registration order, the configured preference is ignored
CandidateRegistrationOrder(pref, h) ==
  IF h.status = "unhealthy" THEN "none"
  ELSE IF h.avail["openai"] THEN "openai"
  ELSE IF h.avail["gemini"] THEN "gemini"
  ELSE "none"

\* variant: no unhealthy guard, the last resort is the preferred provider
CandidateNoGuard(pref, h) ==
  IF pref = "openai" /\ h.avail["openai"] THEN "openai"
  ELSE IF pref = "gemini" /\ h.avail["gemini"] THEN "gemini"
  ELSE IF h.avail["openai"] THEN "openai"
  ELSE IF h.avail["gemini"] THEN "gemini"
  ELSE IF pref \in Providers THEN pref
  ELSE "openai"

\* variant: the preference is followed without looking at its availability
CandidatePreferenceOnly(pref, h) ==
  IF h.status = "unhealthy" THEN "none"
  ELSE IF pref \in Providers THEN pref
  ELSE IF h.avail["openai"] THEN "openai"
  ELSE IF h.avail["gemini"] THEN "gemini"
  ELSE "none"

\* the provider callLLM invokes first, "none" when it throws instead
Candidate(pref, h) ==
  IF h.status = "unhealthy" THEN "none"
  ELSE IF pref = "openai" /\ h.avail["openai"] THEN "openai"
  ELSE IF pref = "gemini" /\ h.avail["gemini"] THEN "gemini"
  ELSE IF h.avail["openai"] THEN "openai"
  ELSE IF h.avail["gemini"] THEN "gemini"
  ELSE "none"

\* the first invocation is the one of the two try blocks
InTryBlock(pref, h) == pref \in Providers /\ h.avail[pref]

\* variant: the catch block rethrows without trying the other provider
FallbackNone(p, h) == "none"

\* variant: the catch block retries the provider that just failed
FallbackRetrySame(p, h) == p

\* variant: the catch block falls back without looking at availability
FallbackAlways(p, h) == Other(p)

\* catch block: the provider tried after p failed, "none" to rethrow
FallbackCandidate(p, h) == IF h.avail[Other(p)] THEN Other(p) ELSE "none"

\* globalErrorHandler: error.status || 500, error.message
ErrorResponse(err) ==
  [code |-> 500,
   message |-> IF err.message = "" THEN "Internal server error" ELSE err.message,
   content |-> "", llmProvider |-> "none"]

NoArgs == [none |-> TRUE]

NoOutput == [built |-> FALSE]

NoPrompt == [built |-> FALSE]

\* conversations that can exist in one behaviour
MaxConversations == 2

\* conversation requests in flight at the same time
MaxInFlight == 2

\* conversation requests received in one behaviour
MaxOps == 3

ConvIds == 1..MaxConversations

Slots == 1..MaxInFlight

NoConversation ==
  [exists |-> FALSE, isActive |-> FALSE, title |-> "", messages |-> <<>>,
   lastMessageAt |-> 0]

IdleRequest ==
  [pc |-> "idle", op |-> "none", conv |-> 0, message |-> "", loaded |-> <<>>,
   status |-> 0, deleted |-> FALSE]

\* analysis and agent requests in flight at the same time
MaxAnalysisInFlight == 2

\* analysis and agent requests received in one behaviour
MaxAnalysisOps == 2

AnalysisSlots == 1..MaxAnalysisInFlight

WsIds == {1, 2}

Users == {"u1", "u2"}

NoWorkspaces ==
  [w \in WsIds |->
     [ownerId |-> "u1", members |-> {}, deleted |-> FALSE, analysisCount |-> 0]]

IdleAnalysisRequest ==
  [pc |-> "idle", op |-> "none", user |-> "u1", ws |-> 0, documentType |-> "",
   context |-> {}, invoked |-> FALSE, returned |-> {}, counted |-> FALSE,
   fallback |-> FALSE, status |-> 0]

\* no analysis or agent request is being served
StoreIdle ==
  /\ workspaces = NoWorkspaces
  /\ storedAnalyses = <<>>
  /\ analysisRequests = [s \in AnalysisSlots |-> IdleAnalysisRequest]
  /\ analysisOps = 0

\* no conversation request is being served
ConvIdle ==
  /\ conversations = [c \in ConvIds |-> NoConversation]
  /\ requests = [s \in Slots |-> IdleRequest]
  /\ opsStarted = 0

\* no service method is applied on its own
PureIdle ==
  /\ pureOp = "none"
  /\ args = NoArgs
  /\ output = NoOutput
  /\ prev = NoOutput
  /\ calls = 0
  /\ locale = "es-EC"
  /\ prompt = NoPrompt

Init ==
  /\ client \in [Providers -> BOOLEAN]
  /\ preferredProvider \in PreferredValues
  /\ pc = "idle"
  /\ kind = "none"
  /\ hcCaller = "none"
  /\ hc = NoHealth
  /\ healthCheck = NoHealth
  /\ health = NoHealth
  /\ inflight = {}
  /\ cur = "none"
  /\ inTry = FALSE
  /\ dispatchResult = NoResult
  /\ response = NoResponse
  /\ hcCount = [c \in {"handler", "dispatch"} |-> 0]
  /\ pingLog = <<>>
  /\ genLog = <<>>
  /\ served = 0
  /\ stored \in InitialStored
  /\ message = ""
  /\ messages = <<>>
  /\ PureIdle
  /\ ConvIdle
  /\ StoreIdle

\* a handler is entered; valid = its input checks and lookups all pass
StartRequest(k, valid, m) ==
  /\ pc = "idle"
  /\ served < MaxRequests
  /\ message' = m
  /\ messages' = <<>>
  /\ served' = served + 1
  /\ kind' = k
  /\ hc' = NoHealth
  /\ healthCheck' = NoHealth
  /\ health' = NoHealth
  /\ inflight' = {}
  /\ cur' = "none"
  /\ inTry' = FALSE
  /\ dispatchResult' = NoResult
  /\ hcCount' = [c \in {"handler", "dispatch"} |-> 0]
  /\ pingLog' = <<>>
  /\ genLog' = <<>>
  /\ IF valid
       THEN /\ pc' = "hc_begin"
            /\ hcCaller' = "handler"
            /\ response' = NoResponse
       ELSE /\ pc' = "idle"
            /\ hcCaller' = "none"
            /\ response' = [code |-> 400, message |-> "rejected",
                            content |-> "", llmProvider |-> "none"]
  /\ UNCHANGED <<config, pureVars, convVars, storeVars, stored>>

\* healthCheck up to its first await: build health, "Check OpenAI"
HcCheckOpenAI ==
  /\ pc = "hc_begin"
  /\ hc' = InitialHealth(preferredProvider)
  /\ hcCount' = [hcCount EXCEPT ![hcCaller] = @ + 1]
  /\ pingLog' = <<>>
  /\ IF client["openai"]
       THEN /\ \E f \in Fates :
                 inflight' = inflight \cup {[to |-> "openai", op |-> "ping", fate |-> f]}
            /\ pc' = "hc_wait_openai"
       ELSE /\ inflight' = inflight
            /\ pc' = "hc_gemini"
  /\ UNCHANGED <<config, pureVars, convVars, storeVars, stored, message, messages, kind, hcCaller, healthCheck, health, cur, inTry,
                 dispatchResult, response, genLog, served>>

\* an exception leaves healthCheck and reaches the caller's catch
HcThrows(p) ==
  IF hcCaller = "handler"
    THEN /\ pc' = "idle"
         /\ response' = ErrorResponse([message |-> ProviderErrorMessage(p)])
         /\ dispatchResult' = dispatchResult
    ELSE /\ pc' = "d_done"
         /\ response' = response
         /\ dispatchResult' = [kind |-> "error", text |-> "",
                               message |-> ProviderErrorMessage(p), from |-> p]

\* the awaited ping of p settles
PingReturn(p, waitPc, nextPc) ==
  /\ pc = waitPc
  /\ \E call \in inflight :
       /\ call.to = p /\ call.op = "ping" /\ call.fate # "hang"
       /\ inflight' = inflight \ {call}
       /\ pingLog' = Append(pingLog, [to |-> p, fate |-> call.fate])
       /\ hc' = [hc EXCEPT !.avail[p] = AvailableAfterPing(call.fate)]
       /\ IF call.fate = "ok" \/ PingFailureCaught(p)
            THEN /\ pc' = nextPc
                 /\ UNCHANGED <<response, dispatchResult>>
            ELSE HcThrows(p)
  /\ UNCHANGED <<config, pureVars, convVars, storeVars, stored, message, messages, kind, hcCaller, healthCheck, health, cur, inTry,
                 hcCount, genLog, served>>

PingOpenAIReturn == PingReturn("openai", "hc_wait_openai", "hc_gemini")

\* variant: the ping is issued without looking at this.gemini
HcCheckGeminiUnguarded ==
  /\ pc = "hc_gemini"
  /\ IF TRUE
       THEN /\ \E f \in Fates :
                 inflight' = inflight \cup {[to |-> "gemini", op |-> "ping", fate |-> f]}
            /\ pc' = "hc_wait_gemini"
       ELSE /\ inflight' = inflight
            /\ pc' = "hc_end"
  /\ UNCHANGED <<config, pureVars, convVars, storeVars, stored, message, messages, kind, hcCaller, hc, healthCheck, health, cur, inTry,
                 dispatchResult, response, hcCount, pingLog, genLog, served>>

\* "Check Gemini"
HcCheckGemini ==
  /\ pc = "hc_gemini"
  /\ IF client["gemini"]
       THEN /\ \E f \in Fates :
                 inflight' = inflight \cup {[to |-> "gemini", op |-> "ping", fate |-> f]}
            /\ pc' = "hc_wait_gemini"
       ELSE /\ inflight' = inflight
            /\ pc' = "hc_end"
  /\ UNCHANGED <<config, pureVars, convVars, storeVars, stored, message, messages, kind, hcCaller, hc, healthCheck, health, cur, inTry,
                 dispatchResult, response, hcCount, pingLog, genLog, served>>

PingGeminiReturn == PingReturn("gemini", "hc_wait_gemini", "hc_end")

\* "Determine overall health" and return to the awaiting caller
HcEnd ==
  /\ pc = "hc_end"
  /\ LET result == [hc EXCEPT !.status = HealthStatusOf(hc.avail)] IN
       /\ hc' = result
       /\ IF hcCaller = "handler"
            THEN /\ healthCheck' = result
                 /\ health' = health
                 /\ pc' = "h_after_hc"
            ELSE /\ health' = result
                 /\ healthCheck' = healthCheck
                 /\ pc' = "d_after_hc"
  /\ UNCHANGED <<config, pureVars, convVars, storeVars, stored, message, messages, kind, hcCaller, inflight, cur, inTry, dispatchResult,
                 response, hcCount, pingLog, genLog, served>>

\* the handler after `await llmService.healthCheck()`
HandlerAfterHealth ==
  /\ pc = "h_after_hc"
  /\ IF kind = "health"
       THEN /\ pc' = "idle"
            /\ hcCaller' = "none"
            /\ response' = [code |-> 200, message |-> healthCheck.status,
                            content |-> "", llmProvider |-> "none"]
       ELSE IF healthCheck.status = "unhealthy"
       THEN /\ pc' = "idle"
            /\ hcCaller' = "none"
            /\ response' = [code |-> 503, message |-> UnavailableMessage,
                            content |-> "", llmProvider |-> "none"]
       ELSE /\ pc' = "hc_begin"
            /\ hcCaller' = "dispatch"
            /\ response' = response
  /\ messages' = IF kind # "health" /\ healthCheck.status # "unhealthy"
                   THEN HandlerMessages(kind, stored, message)
                   ELSE messages
  /\ UNCHANGED <<config, pureVars, convVars, storeVars, stored, message, kind, hc, healthCheck, health, inflight, cur, inTry,
                 dispatchResult, hcCount, pingLog, genLog, served>>

\* callLLM after `await this.healthCheck()`: pick the provider or throw
DispatchAfterHealth ==
  /\ pc = "d_after_hc"
  /\ LET c == Candidate(preferredProvider, health) IN
       IF c = "none"
         THEN /\ pc' = "d_done"
              /\ dispatchResult' = [kind |-> "error", text |-> "",
                                    message |-> NoProvidersMessage, from |-> "none"]
              /\ UNCHANGED <<cur, inTry>>
         ELSE /\ pc' = "d_call"
              /\ cur' = c
              /\ inTry' = InTryBlock(preferredProvider, health)
              /\ dispatchResult' = dispatchResult
  /\ UNCHANGED <<config, pureVars, convVars, storeVars, stored, message, messages, kind, hcCaller, hc, healthCheck, health, inflight,
                 response, hcCount, pingLog, genLog, served>>

\* variant: the catch block runs the health check again before falling back
InvocationFailedRecheck(p, err) ==
  IF inTry /\ health.avail[Other(p)]
    THEN /\ pc' = "hc_begin"
         /\ UNCHANGED <<cur, inTry, dispatchResult>>
    ELSE /\ pc' = "d_done"
         /\ dispatchResult' = [kind |-> "error", text |-> "",
                               message |-> err, from |-> p]
         /\ UNCHANGED <<cur, inTry>>

\* the invocation of provider p raised err inside callLLM
InvocationFailed(p, err) ==
  LET fb == FallbackCandidate(p, health) IN
    IF inTry /\ fb # "none"
      THEN /\ pc' = "d_call"
           /\ cur' = fb
           /\ inTry' = FALSE
           /\ dispatchResult' = dispatchResult
      ELSE /\ pc' = "d_done"
           /\ dispatchResult' = [kind |-> "error", text |-> "",
                                 message |-> err, from |-> p]
           /\ UNCHANGED <<cur, inTry>>

\* callOpenAI / callGemini up to the awaited generation request
CallProvider ==
  /\ pc = "d_call"
  /\ IF client[cur]
       THEN /\ \E f \in Fates :
                 inflight' = inflight \cup {[to |-> cur, op |-> "gen", fate |-> f]}
            /\ genLog' = Append(genLog, [to |-> cur, outcome |-> "pending", text |-> "",
                                         sent |-> RequestTurns(cur, messages)])
            /\ pc' = "d_wait"
            /\ UNCHANGED <<cur, inTry, dispatchResult>>
       ELSE /\ InvocationFailed(cur, NotInitializedMessage(cur))
            /\ UNCHANGED <<inflight, genLog>>
  /\ UNCHANGED <<config, pureVars, convVars, storeVars, stored, message, messages, kind, hcCaller, hc, healthCheck, health, response,
                 hcCount, pingLog, served>>

\* the awaited generation request settles
GenReturn ==
  /\ pc = "d_wait"
  /\ \E call \in inflight :
       /\ call.to = cur /\ call.op = "gen" /\ call.fate # "hang"
       /\ inflight' = inflight \ {call}
       /\ IF call.fate = "ok"
            THEN \E content \in Contents(cur) :
                   /\ genLog' = [genLog EXCEPT ![Len(genLog)].outcome = "ok",
                                                ![Len(genLog)].text = InvokerText(content)]
                   /\ dispatchResult' = [kind |-> "text", text |-> InvokerText(content),
                                         message |-> "", from |-> cur]
                   /\ pc' = "d_done"
                   /\ UNCHANGED <<cur, inTry>>
            ELSE /\ genLog' = [genLog EXCEPT ![Len(genLog)].outcome = "fail"]
                 /\ InvocationFailed(cur, ProviderErrorMessage(cur))
  /\ UNCHANGED <<config, pureVars, convVars, storeVars, stored, message, messages, kind, hcCaller, hc, healthCheck, health, response,
                 hcCount, pingLog, served>>

\* variant: the response names the provider that produced the content
HandlerAfterDispatchNamesProducer ==
  /\ pc = "d_done"
  /\ pc' = "idle"
  /\ hcCaller' = "none"
  /\ response' =
       IF dispatchResult.kind = "text"
         THEN [code |-> 200, message |-> "ok", content |-> dispatchResult.text,
               llmProvider |->
                 IF kind = "conversationChat" THEN "none"
                 ELSE dispatchResult.from]
         ELSE ErrorResponse(dispatchResult)
  /\ stored' =
       IF kind = "conversationChat" /\ dispatchResult.kind = "text"
         THEN stored \o <<StoredTurn("user", message, served),
                          StoredTurn("assistant", dispatchResult.text, served)>>
         ELSE stored
  /\ UNCHANGED <<config, pureVars, convVars, storeVars, message, messages, kind, hc, healthCheck, health, inflight, cur, inTry,
                 dispatchResult, hcCount, pingLog, genLog, served>>

\* the handler after the service call: success response or next(error);
\* only the agent controllers put llmProvider in the response
HandlerAfterDispatch ==
  /\ pc = "d_done"
  /\ pc' = "idle"
  /\ hcCaller' = "none"
  /\ response' =
       IF dispatchResult.kind = "text"
         THEN [code |-> 200, message |-> "ok", content |-> dispatchResult.text,
               llmProvider |->
                 IF kind = "conversationChat" THEN "none"
                 ELSE healthCheck.preferredProvider]
         ELSE ErrorResponse(dispatchResult)
  /\ stored' =
       IF kind = "conversationChat" /\ dispatchResult.kind = "text"
         THEN stored \o <<StoredTurn("user", message, served),
                          StoredTurn("assistant", dispatchResult.text, served)>>
         ELSE stored
  /\ UNCHANGED <<config, pureVars, convVars, storeVars, message, messages, kind, hc, healthCheck, health, inflight, cur, inTry,
                 dispatchResult, hcCount, pingLog, genLog, served>>

Next ==
  \/ \E k \in RequestKinds, valid \in BOOLEAN, m \in UserMessages :
       StartRequest(k, valid, m)
  \/ HcCheckOpenAI
  \/ PingOpenAIReturn
  \/ HcCheckGemini
  \/ PingGeminiReturn
  \/ HcEnd
  \/ HandlerAfterHealth
  \/ DispatchAfterHealth
  \/ CallProvider
  \/ GenReturn
  \/ HandlerAfterDispatch

Spec == Init /\ [][Next]_vars

\* the runtime runs every enabled continuation; an answer that never comes
\* (fate "hang") enables nothing
FairSpec == Spec /\ WF_vars(Next)

(***************************************************************************)
(* The service methods on their own: the parse step of the insight         *)
(* methods and the prompt builders, applied to arguments drawn from        *)
(* bounded sets.  A provider text is a sequence of JSON tokens.            *)
(***************************************************************************)

\* longest provider text enumerated token by token
MaxTextLen == 2

\* longest list of analyses handed to a comparison
MaxDocs == 2

\* service calls applied in one behaviour
MaxCalls == 2

\* string literals that may appear in a provider text
StringTokens ==
  {"str", "summary", "keyFindings", "recommendations", "riskAssessment",
   "comparison", "recommendation", "riskMatrix"}

\* the tokens enumerated exhaustively; "x" is text that is no JSON token
TextAlphabet == {"{", "}", "[", "]", "num", "null", "str", "x"}

RECURSIVE SeqsUpTo(_, _)
SeqsUpTo(S, n) ==
  IF n = 0 THEN {<<>>}
  ELSE LET shorter == SeqsUpTo(S, n - 1) IN
         shorter \cup {Append(q, e) : q \in shorter, e \in S}

\* a complete document-insight answer
InsightsJson ==
  <<"{", "summary", ":", "str", ",", "keyFindings", ":", "[", "str", "]", ",",
    "recommendations", ":", "[", "str", "]", ",",
    "riskAssessment", ":", "{", "str", ":", "num", "}", "}">>

\* a complete comparison answer
ComparisonJson ==
  <<"{", "summary", ":", "str", ",", "comparison", ":", "{", "}", ",",
    "recommendation", ":", "{", "}", ",", "riskMatrix", ":", "{", "}", "}">>

\* what a provider may answer: every short token sequence, the complete
\* answers, an answer cut short, an object of another shape
ProviderContents ==
  SeqsUpTo(TextAlphabet, MaxTextLen) \cup
    {InsightsJson, ComparisonJson,
     <<"{", "summary", ":", "str">>,
     <<"{", "summary", ":", "str", "}">>,
     <<"[", "str", ",", "num", "]">>}

\* callOpenAI / callGemini: empty content becomes the placeholder
ResponseOf(content) == IF content = <<>> THEN <<NoResponseText>> ELSE content

ParseFailure == [ok |-> FALSE, next |-> 0, type |-> "none", keys |-> {}]

Parsed(n, t, k) == [ok |-> TRUE, next |-> n, type |-> t, keys |-> k]

TokenAt(t, i) == IF i \in 1..Len(t) THEN t[i] ELSE "<end>"

RECURSIVE ParseValue(_, _)
RECURSIVE ParseElements(_, _)
RECURSIVE ParseMembers(_, _, _)

\* JSON value starting at token i
ParseValue(t, i) ==
  LET tok == TokenAt(t, i) IN
    IF tok = "num" THEN Parsed(i + 1, "number", {})
    ELSE IF tok = "null" THEN Parsed(i + 1, "null", {})
    ELSE IF tok \in StringTokens THEN Parsed(i + 1, "string", {})
    ELSE IF tok = "[" THEN
      IF TokenAt(t, i + 1) = "]" THEN Parsed(i + 2, "array", {})
      ELSE ParseElements(t, i + 1)
    ELSE IF tok = "{" THEN
      IF TokenAt(t, i + 1) = "}" THEN Parsed(i + 2, "object", {})
      ELSE ParseMembers(t, i + 1, {})
    ELSE ParseFailure

\* elements of an array, the first one starting at token i
ParseElements(t, i) ==
  LET v == ParseValue(t, i) IN
    IF ~v.ok THEN ParseFailure
    ELSE IF TokenAt(t, v.next) = "," THEN ParseElements(t, v.next + 1)
    ELSE IF TokenAt(t, v.next) = "]" THEN Parsed(v.next + 1, "array", {})
    ELSE ParseFailure

\* members of an object, the first key at token i; keys are those seen
ParseMembers(t, i, keys) ==
  IF TokenAt(t, i) \notin StringTokens \/ TokenAt(t, i + 1) # ":"
    THEN ParseFailure
  ELSE LET v == ParseValue(t, i + 2) IN
    IF ~v.ok THEN ParseFailure
    ELSE IF TokenAt(t, v.next) = ","
      THEN ParseMembers(t, v.next + 1, keys \cup {t[i]})
    ELSE IF TokenAt(t, v.next) = "}"
      THEN Parsed(v.next + 1, "object", keys \cup {t[i]})
    ELSE ParseFailure

\* JSON.parse: the whole text must be one value
JsonParse(t) ==
  LET v == ParseValue(t, 1) IN
    IF v.ok /\ v.next = Len(t) + 1 THEN v ELSE ParseFailure

\* variant: the summary of the fallback is cut to its first token
InsightsFallbackCut(text) ==
  [summary |-> SubSeq(text, 1, 1),
   keyFindings |-> <<"Análisis completado - ver resumen para detalles">>,
   recommendations |-> <<"Revisar el análisis detallado proporcionado">>,
   riskAssessment |-> [level |-> "medium", score |-> 5, factors |-> <<"general">>]]

\* "Fallback if JSON parsing fails" of generateDocumentInsights
InsightsFallback(text) ==
  [summary |-> text,
   keyFindings |-> <<"Análisis completado - ver resumen para detalles">>,
   recommendations |-> <<"Revisar el análisis detallado proporcionado">>,
   riskAssessment |-> [level |-> "medium", score |-> 5, factors |-> <<"general">>]]

\* the parse step of generateDocumentInsights: JSON.parse(response), or
\* the fallback when it throws
InsightsResult(text) ==
  LET v == JsonParse(text) IN
    IF v.ok
      THEN [built |-> TRUE, response |-> text, parsed |-> TRUE,
            type |-> v.type, keys |-> v.keys, value |-> <<>>]
      ELSE [built |-> TRUE, response |-> text, parsed |-> FALSE,
            type |-> "object", keys |-> DOMAIN InsightsFallback(text),
            value |-> InsightsFallback(text)]

\* documentName values; "" stands for a missing name
DocNames == {"", "A", "B"}

PositionLabels ==
  <<"Documento 1", "Documento 2", "Documento 3", "Documento 4", "Documento 5">>

\* variant: the position is used as is, counting from zero
DocLabelZeroBased(name, i) ==
  IF name # "" THEN name
  ELSE IF i = 1 THEN "Documento 0" ELSE PositionLabels[i - 1]

\* a.documentName || `Documento ${i + 1}`, i the index counted from 1 here
DocLabel(name, i) == IF name # "" THEN name ELSE PositionLabels[i]

\* docNames of the comparison fallback
DocLabels(analyses) ==
  [i \in 1..Len(analyses) |-> DocLabel(analyses[i].documentName, i)]

LabelSet(labels) == {labels[i] : i \in 1..Len(labels)}

\* "Fallback if JSON parsing fails" of generateComparisonInsights
ComparisonFallback(text, analyses) ==
  LET docNames == DocLabels(analyses) IN
    [summary |-> text,
     comparison |->
       [strengths |-> [n \in LabelSet(docNames) |-> <<"Ver análisis detallado">>],
        weaknesses |-> [n \in LabelSet(docNames) |-> <<"Ver análisis detallado">>]],
     recommendation |->
       [preferred |-> IF docNames = <<>> THEN "Primer documento" ELSE docNames[1],
        reasoning |-> "Basado en el análisis detallado proporcionado",
        improvements |-> <<"Revisar la comparación detallada proporcionada">>],
     riskMatrix |->
       [n \in LabelSet(docNames) |->
          [legal |-> 5, financial |-> 5, operational |-> 5]]]

\* the parse step of generateComparisonInsights
ComparisonResult(text, analyses) ==
  LET v == JsonParse(text) IN
    IF v.ok
      THEN [built |-> TRUE, response |-> text, parsed |-> TRUE,
            type |-> v.type, keys |-> v.keys, value |-> <<>>]
      ELSE [built |-> TRUE, response |-> text, parsed |-> FALSE,
            type |-> "object",
            keys |-> DOMAIN ComparisonFallback(text, analyses),
            value |-> ComparisonFallback(text, analyses)]

AnalysesLists ==
  {[i \in 1..Len(names) |-> [documentName |-> names[i]]] :
     names \in SeqsUpTo(DocNames, MaxDocs)}

Questions == {"", "plazos"}

\* no request is being served
LlmIdle ==
  /\ client = [p \in Providers |-> FALSE]
  /\ preferredProvider = "openai"
  /\ pc = "idle"
  /\ kind = "none"
  /\ hcCaller = "none"
  /\ hc = NoHealth
  /\ healthCheck = NoHealth
  /\ health = NoHealth
  /\ inflight = {}
  /\ cur = "none"
  /\ inTry = FALSE
  /\ dispatchResult = NoResult
  /\ response = NoResponse
  /\ hcCount = [c \in {"handler", "dispatch"} |-> 0]
  /\ pingLog = <<>>
  /\ genLog = <<>>
  /\ served = 0
  /\ stored = <<>>
  /\ message = ""
  /\ messages = <<>>

PureInit ==
  /\ LlmIdle
  /\ pureOp = "none"
  /\ args = NoArgs
  /\ output = NoOutput
  /\ prev = NoOutput
  /\ calls = 0
  /\ locale \in {"es-EC", "en-US"}
  /\ prompt = NoPrompt
  /\ ConvIdle
  /\ StoreIdle

\* extractedText.substring(0, 2000): the cap of a content preview
PreviewLimit == 2000

\* lengths of the extracted texts: none, at the cap, one past it
TextLens == {0, PreviewLimit, PreviewLimit + 1}

\* text.substring(0, n); a text is known by its identity and its length
Substring(text, n) ==
  [id |-> text.id, len |-> IF text.len < n THEN text.len ELSE n]

\* variant: the age of the date at the moment of the call
ToLocaleDateStringNow(at, loc) ==
  [date |-> calls - at,
   format |-> IF loc = "en-US" THEN "M/D/YYYY" ELSE "D/M/YYYY"]

\* new Date(at).toLocaleDateString(): the process locale fixes the format
ToLocaleDateString(at, loc) ==
  [date |-> at, format |-> IF loc = "en-US" THEN "M/D/YYYY" ELSE "D/M/YYYY"]

\* context.documents entries; "" stands for a missing description
DocumentValues ==
  {[name |-> "A", type |-> "pliego",
    description |-> IF n = 0 THEN "" ELSE "d",
    extractedText |-> [id |-> "T", len |-> n],
    uploadedAt |-> 1] : n \in TextLens}

\* variant: a text of exactly the cap is marked as cut
DocumentEntryEllipsisAtCap(doc, i, loc) ==
  [index |-> i,
   name |-> doc.name,
   type |-> doc.type,
   description |->
     IF doc.description = "" THEN "Sin descripción" ELSE doc.description,
   hasPreview |-> doc.extractedText.len > 0,
   textPreview |-> Substring(doc.extractedText, PreviewLimit),
   ellipsis |->
     IF doc.extractedText.len > 0 /\ doc.extractedText.len >= PreviewLimit
       THEN "..." ELSE "",
   uploaded |-> ToLocaleDateString(doc.uploadedAt, loc)]

\* one entry of documentContext
DocumentEntry(doc, i, loc) ==
  [index |-> i,
   name |-> doc.name,
   type |-> doc.type,
   description |->
     IF doc.description = "" THEN "Sin descripción" ELSE doc.description,
   hasPreview |-> doc.extractedText.len > 0,
   textPreview |-> Substring(doc.extractedText, PreviewLimit),
   ellipsis |->
     IF doc.extractedText.len > 0 /\ doc.extractedText.len > PreviewLimit
       THEN "..." ELSE "",
   uploaded |-> ToLocaleDateString(doc.uploadedAt, loc)]

NoRucValidation ==
  [present |-> FALSE, ruc |-> "", isValid |-> FALSE, businessName |-> "",
   status |-> ""]

\* analyses of the context; "" stands for a missing field
AnalysisValues ==
  {[documentName |-> "A", createdAt |-> 1, createdBy |-> "", aiAnalysis |-> "",
    rucValidation |-> NoRucValidation],
   [documentName |-> "B", createdAt |-> 2, createdBy |-> "Ana",
    aiAnalysis |-> "texto",
    rucValidation |->
      [present |-> TRUE, ruc |-> "", isValid |-> TRUE, businessName |-> "X",
       status |-> ""]]}

\* the VALIDACIÓN RUC lines
RucEntry(ruc) ==
  IF ~ruc.present THEN NoRucValidation
  ELSE [present |-> TRUE,
        ruc |-> IF ruc.ruc = "" THEN "No encontrado" ELSE ruc.ruc,
        isValid |-> ruc.isValid,
        businessName |->
          IF ruc.businessName = "" THEN "No disponible" ELSE ruc.businessName,
        status |-> IF ruc.status = "" THEN "No disponible" ELSE ruc.status]

\* one analysis block of analysisContext / the focused document block
AnalysisEntry(analysis, i, loc) ==
  [index |-> i,
   documentName |-> analysis.documentName,
   date |-> ToLocaleDateString(analysis.createdAt, loc),
   analyst |-> IF analysis.createdBy = "" THEN "Sistema" ELSE analysis.createdBy,
   hasAnalysis |-> analysis.aiAnalysis # "",
   aiAnalysis |-> analysis.aiAnalysis,
   rucValidation |-> RucEntry(analysis.rucValidation)]

\* context.workspace; "" stands for a missing name / country
WorkspaceValues ==
  {[name |-> "", country |-> ""], [name |-> "W", country |-> "Ecuador"]}

\* the "Información de Contexto" head lines shared by the chat prompts
WorkspaceLines(workspace) ==
  [workspace |-> IF workspace.name = "" THEN "Desconocido" ELSE workspace.name,
   country |->
     IF workspace.country = "" THEN "No especificado" ELSE workspace.country]

\* systemPrompt of chatWithAgent
ChatWithAgentPrompt(context, loc) ==
  [builder |-> "chatWithAgent",
   head |-> WorkspaceLines(context.workspace),
   analyses |-> Len(context.analyses),
   documents |-> Len(context.documents),
   documentContext |->
     [i \in 1..Len(context.documents) |->
        DocumentEntry(context.documents[i], i, loc)],
   analysisContext |->
     [i \in 1..Len(context.fullAnalyses) |->
        AnalysisEntry(context.fullAnalyses[i], i, loc)]]

\* systemPrompt of chatWithDocument; focusedAnalysis is <<>> when missing
ChatWithDocumentPrompt(context, loc) ==
  [builder |-> "chatWithDocument",
   head |-> WorkspaceLines(context.workspace),
   documentContext |->
     [i \in 1..Len(context.focusedAnalysis) |->
        AnalysisEntry(context.focusedAnalysis[i], i, loc)]]

\* country names handed to the document-insight builder
CountryNames == {"Ecuador", "ecuador", "ECUADOR", "Peru", "Wakanda"}

\* country.toLowerCase()
ToLowerCase(str) ==
  CASE str = "Ecuador" -> "ecuador"
    [] str = "ECUADOR" -> "ecuador"
    [] str = "Peru" -> "peru"
    [] str = "Wakanda" -> "wakanda"
    [] OTHER -> str

\* the Ecuador legal-framework block, by its headings
EcuadorLegalContext ==
  <<"Marco Legal de Ecuador para Contratación Pública:",
    "Constitución de la República del Ecuador",
    "Ley Orgánica del Sistema Nacional de Contratación Pública (LOSNCP)",
    "Reglamento General de la LOSNCP",
    "Principios Clave:",
    "Nota: Para un análisis completo, se debe verificar el cumplimiento con estas normativas específicas.">>

GenericLegalContext(country) ==
  <<"Marco legal general para contratación pública en ", country,
    ". Se recomienda consultar la legislación local específica.">>

\* variant: the name is compared as written
GetLegalContextExactCase(country) ==
  IF country = "ecuador" THEN EcuadorLegalContext
  ELSE GenericLegalContext(country)

\* getLegalContext
GetLegalContext(country) ==
  IF ToLowerCase(country) = "ecuador" THEN EcuadorLegalContext
  ELSE GenericLegalContext(country)

\* const { country = 'Ecuador' } = analysis
CountryOf(analysis) ==
  IF analysis.hasCountry THEN analysis.country ELSE "Ecuador"

\* systemPrompt of generateDocumentInsights, markdown revision
InsightsMarkdownPrompt(analysis) ==
  [builder |-> "generateDocumentInsights.markdown",
   country |-> CountryOf(analysis),
   legalContext |-> GetLegalContext(CountryOf(analysis))]

\* the analyses handed to the markdown revision
CountryAnalyses ==
  {[hasCountry |-> FALSE, country |-> "", fileName |-> "A"]} \cup
  {[hasCountry |-> TRUE, country |-> c, fileName |-> "A"] : c \in CountryNames}

ChatMessageLists ==
  {<<[role |-> "user", content |-> "q1"]>>,
   <<[role |-> "user", content |-> "q1"],
     [role |-> "assistant", content |-> "r1"],
     [role |-> "user", content |-> "q2"]>>}

\* contexts of chatWithAgent
AgentContexts ==
  {[workspace |-> w, documents |-> docs, fullAnalyses |-> fa,
    analyses |-> [i \in 1..Len(fa) |-> fa[i].documentName]] :
     w \in WorkspaceValues,
     docs \in SeqsUpTo(DocumentValues, MaxDocs),
     fa \in SeqsUpTo(AnalysisValues, 1)}

\* contexts of chatWithDocument
DocumentContexts ==
  {[workspace |-> w, focusedAnalysis |-> fa] :
     w \in WorkspaceValues, fa \in SeqsUpTo(AnalysisValues, 1)}

\* the one user message the insight methods build
UserMessage(question, subject) ==
  <<[role |-> "user",
     content |-> [focus |-> question, subject |-> subject]]>>

\* the systemPrompt and messages a method hands to callLLM
PromptOf(op, a, loc) ==
  CASE op = "chatWithAgent" ->
         [built |-> TRUE, system |-> ChatWithAgentPrompt(a.context, loc),
          messages |-> a.messages]
    [] op = "chatWithDocument" ->
         [built |-> TRUE, system |-> ChatWithDocumentPrompt(a.context, loc),
          messages |-> a.messages]
    [] op = "generateDocumentInsights.markdown" ->
         [built |-> TRUE, system |-> InsightsMarkdownPrompt(a.analysis),
          messages |-> UserMessage(a.question, a.analysis)]
    [] op = "generateDocumentInsights" ->
         [built |-> TRUE, system |-> [builder |-> "generateDocumentInsights"],
          messages |-> UserMessage(a.question, a.analysis)]
    [] OTHER ->
         [built |-> TRUE, system |-> [builder |-> "generateComparisonInsights"],
          messages |-> UserMessage(a.question, a.analyses)]

\* the methods that return the provider text as it is
TextOps ==
  {"chatWithAgent", "chatWithDocument", "generateDocumentInsights.markdown"}

\* provider answers to the text methods
TextContents == {<<>>, <<"str">>}

\* a service method is called with arguments a
BeginCall(op, a) ==
  /\ calls < MaxCalls
  /\ pureOp = "none" \/ output.built
  /\ pureOp' = op
  /\ args' = a
  /\ prompt' = NoPrompt
  /\ output' = NoOutput
  /\ prev' = NoOutput
  /\ calls' = calls + 1
  /\ UNCHANGED <<llmVars, convVars, storeVars, locale>>

CallGenerateDocumentInsights ==
  \E q \in Questions, name \in DocNames :
    BeginCall("generateDocumentInsights",
              [analysis |-> [documentName |-> name], question |-> q])

CallGenerateComparisonInsights ==
  \E q \in Questions, as \in AnalysesLists :
    BeginCall("generateComparisonInsights", [analyses |-> as, question |-> q])

CallGenerateDocumentInsightsMarkdown ==
  \E q \in Questions, an \in CountryAnalyses :
    BeginCall("generateDocumentInsights.markdown",
              [analysis |-> an, question |-> q])

CallChatWithAgent ==
  \E msgs \in ChatMessageLists, ctx \in AgentContexts :
    BeginCall("chatWithAgent", [messages |-> msgs, context |-> ctx])

CallChatWithDocument ==
  \E msgs \in ChatMessageLists, ctx \in DocumentContexts :
    BeginCall("chatWithDocument", [messages |-> msgs, context |-> ctx])

\* the same method is called once more with the same arguments
CallAgain ==
  /\ calls < MaxCalls
  /\ output.built
  /\ prev' = [built |-> TRUE, op |-> pureOp, args |-> args,
              system |-> prompt.system]
  /\ prompt' = NoPrompt
  /\ output' = NoOutput
  /\ calls' = calls + 1
  /\ UNCHANGED <<llmVars, convVars, storeVars, pureOp, args, locale>>

\* variant: chatWithAgent cuts each extracted text to its preview in place
BuildPromptInPlace ==
  /\ pureOp # "none"
  /\ ~prompt.built
  /\ prompt' = PromptOf(pureOp, args, locale)
  /\ args' =
       IF pureOp = "chatWithAgent"
         THEN [args EXCEPT !.context.documents =
                 [i \in 1..Len(@) |->
                    [@[i] EXCEPT !.extractedText = Substring(@, PreviewLimit)]]]
         ELSE args
  /\ UNCHANGED <<llmVars, convVars, storeVars, pureOp, output, prev, calls, locale>>

\* the method runs up to its call of callLLM
BuildPrompt ==
  /\ pureOp # "none"
  /\ ~prompt.built
  /\ prompt' = PromptOf(pureOp, args, locale)
  /\ UNCHANGED <<llmVars, convVars, storeVars, pureOp, args, output, prev, calls, locale>>

\* callLLM returned and the method returns its text
ReturnResponse ==
  /\ pureOp \in TextOps
  /\ prompt.built
  /\ ~output.built
  /\ \E content \in TextContents :
       output' = [built |-> TRUE, response |-> ResponseOf(content)]
  /\ UNCHANGED <<llmVars, convVars, storeVars, pureOp, args, prev, calls, locale, prompt>>

\* generateDocumentInsights after callLLM returned
ParseDocumentInsights ==
  /\ pureOp = "generateDocumentInsights"
  /\ prompt.built
  /\ ~output.built
  /\ \E content \in ProviderContents :
       output' = InsightsResult(ResponseOf(content))
  /\ UNCHANGED <<llmVars, convVars, storeVars, pureOp, args, prev, calls, locale, prompt>>

\* generateComparisonInsights after callLLM returned
ParseComparisonInsights ==
  /\ pureOp = "generateComparisonInsights"
  /\ prompt.built
  /\ ~output.built
  /\ \E content \in ProviderContents :
       output' = ComparisonResult(ResponseOf(content), args.analyses)
  /\ UNCHANGED <<llmVars, convVars, storeVars, pureOp, args, prev, calls, locale, prompt>>

PureNext ==
  \/ CallGenerateDocumentInsights
  \/ CallGenerateComparisonInsights
  \/ CallGenerateDocumentInsightsMarkdown
  \/ CallChatWithAgent
  \/ CallChatWithDocument
  \/ CallAgain
  \/ BuildPrompt
  \/ ReturnResponse
  \/ ParseDocumentInsights
  \/ ParseComparisonInsights

PureSpec == PureInit /\ [][PureNext]_vars

(***************************************************************************)
(* Conversation handlers run side by side: ConvSpec.  Each request takes   *)
(* a slot; the handlers of different slots interleave at their awaits.     *)
(* The analysis and workspace lookups and the whole LLM layer are one      *)
(* outcome per request, because they do not touch the conversation.        *)
(***************************************************************************)

\* req.body.message / initialMessage; "" is a missing one, " " a blank one
ChatInputs == {"", " ", " q2 "}

\* req.body.title; "" is a missing one, " " a blank one
Titles == {"", " ", "t"}

\* what the LLM layer does for one request
LlmOutcomes ==
  {[kind |-> "unhealthy", text |-> ""], [kind |-> "throws", text |-> ""],
   [kind |-> "text", text |-> "r1"], [kind |-> "text", text |-> " "]}

\* the conversations the database holds at the start
InitialConversations ==
  {[c \in ConvIds |->
      IF c = 1
        THEN [exists |-> TRUE, isActive |-> TRUE, title |-> "t",
              messages |-> st, lastMessageAt |-> 0]
        ELSE NoConversation] : st \in InitialStored}

\* chatMessageSchema: content is required after trimming
ValidContent(content) == Trim(content) # ""

\* variant: save() writes the array of the loaded document back
SaveMessagesOverwrite(db, loaded, pushed) == loaded \o pushed

\* conversation.messages.push(...) and save(): the pushed elements are
\* appended to the stored array in one update
SaveMessages(db, loaded, pushed) == db \o pushed

\* conversation c is stored with isActive: false
Deleted(c) ==
  /\ c \in ConvIds
  /\ conversations[c].exists
  /\ ~conversations[c].isActive

\* the request of slot s is answered by the step that received it;
\* deleted notes whether its conversation was deleted when it arrived
Answered(s, op, c, m, loaded, code) ==
  [requests EXCEPT ![s] =
     [pc |-> "idle", op |-> op, conv |-> c, message |-> m, loaded |-> loaded,
      status |-> code, deleted |-> Deleted(c)]]

\* the request of slot s awaits the LLM layer
Awaiting(s, op, c, m, loaded) ==
  [requests EXCEPT ![s] =
     [pc |-> "awaitLLM", op |-> op, conv |-> c, message |-> m,
      loaded |-> loaded, status |-> 0, deleted |-> Deleted(c)]]

\* the request of slot s is answered after its await
AnsweredLater(s, code) ==
  [requests EXCEPT ![s].pc = "idle", ![s].status = code]

FreeIds == {c \in ConvIds : ~conversations[c].exists}

\* Conversation.create(...) with messages: []
NewConversation(title) ==
  [exists |-> TRUE, isActive |-> TRUE,
   title |-> IF title = "" THEN "Chat about A" ELSE Trim(title),
   messages |-> <<>>,
   lastMessageAt |-> opsStarted]

\* createConversationController up to its first await of the LLM layer;
\* found: the analysis is completed and the workspace is accessible
CreateConversation(s, title, initial, found) ==
  /\ requests[s].pc = "idle"
  /\ opsStarted < MaxOps
  /\ opsStarted' = opsStarted + 1
  /\ IF ~found
       THEN /\ requests' = Answered(s, "create", 0, initial, <<>>, 404)
            /\ UNCHANGED conversations
       ELSE IF title # "" /\ Trim(title) = ""
         THEN /\ requests' = Answered(s, "create", 0, initial, <<>>, 500)
              /\ UNCHANGED conversations
         ELSE /\ FreeIds # {}
              /\ LET c == CHOOSE n \in FreeIds : \A k \in FreeIds : n <= k IN
                   /\ conversations' =
                        [conversations EXCEPT ![c] = NewConversation(title)]
                   /\ requests' =
                        IF initial = ""
                          THEN Answered(s, "create", c, initial, <<>>, 201)
                          ELSE Awaiting(s, "create", c, initial, <<>>)
  /\ UNCHANGED <<llmVars, pureVars, storeVars>>

\* variant: the lookup does not filter on isActive
ChatLoadIgnoresActive(s, c, m, found) ==
  /\ requests[s].pc = "idle"
  /\ opsStarted < MaxOps
  /\ opsStarted' = opsStarted + 1
  /\ requests' =
       IF m = "" THEN Answered(s, "chat", c, m, <<>>, 400)
       ELSE IF ~conversations[c].exists
         THEN Answered(s, "chat", c, m, <<>>, 404)
       ELSE IF ~found THEN Answered(s, "chat", c, m, <<>>, 404)
       ELSE Awaiting(s, "chat", c, m, conversations[c].messages)
  /\ UNCHANGED <<llmVars, pureVars, storeVars, conversations>>

\* variant: the user turn is stored before the LLM layer is awaited
ChatLoadStoresUserTurn(s, c, m, found) ==
  /\ requests[s].pc = "idle"
  /\ opsStarted < MaxOps
  /\ opsStarted' = opsStarted + 1
  /\ IF m = ""
       THEN /\ requests' = Answered(s, "chat", c, m, <<>>, 400)
            /\ UNCHANGED conversations
       ELSE IF ~(conversations[c].exists /\ conversations[c].isActive) \/ ~found
         THEN /\ requests' = Answered(s, "chat", c, m, <<>>, 404)
              /\ UNCHANGED conversations
         ELSE /\ requests' = Awaiting(s, "chat", c, m, conversations[c].messages)
              /\ conversations' =
                   [conversations EXCEPT ![c].messages =
                      Append(@, StoredTurn("user", m, opsStarted))]
  /\ UNCHANGED <<llmVars, pureVars, storeVars>>

\* chatWithConversationController up to its first await of the LLM layer
ChatLoad(s, c, m, found) ==
  /\ requests[s].pc = "idle"
  /\ opsStarted < MaxOps
  /\ opsStarted' = opsStarted + 1
  /\ requests' =
       IF m = "" THEN Answered(s, "chat", c, m, <<>>, 400)
       ELSE IF ~(conversations[c].exists /\ conversations[c].isActive)
         THEN Answered(s, "chat", c, m, <<>>, 404)
       ELSE IF ~found THEN Answered(s, "chat", c, m, <<>>, 404)
       ELSE Awaiting(s, "chat", c, m, conversations[c].messages)
  /\ UNCHANGED <<llmVars, pureVars, storeVars, conversations>>

\* the rest of both handlers: the health check, chatWithDocument, the push
\* of the two turns, save() and the response
LlmReturns(s, outcome) ==
  LET r == requests[s]
      pushed == <<StoredTurn("user", r.message, opsStarted),
                  StoredTurn("assistant", outcome.text, opsStarted)>>
  IN
    /\ r.pc = "awaitLLM"
    /\ IF outcome.kind = "unhealthy"
         THEN /\ requests' = AnsweredLater(s, 503)
              /\ UNCHANGED conversations
         ELSE IF \/ outcome.kind = "throws"
                 \/ ~ValidContent(r.message)
                 \/ ~ValidContent(outcome.text)
           THEN /\ requests' = AnsweredLater(s, 500)
                /\ UNCHANGED conversations
           ELSE /\ conversations' =
                     [conversations EXCEPT
                        ![r.conv].messages = SaveMessages(@, r.loaded, pushed),
                        ![r.conv].lastMessageAt = opsStarted]
                /\ requests' =
                     AnsweredLater(s, IF r.op = "create" THEN 201 ELSE 200)
    /\ UNCHANGED <<llmVars, pureVars, storeVars, opsStarted>>

\* getConversationHistoryController
GetConversationHistory(s, c) ==
  /\ requests[s].pc = "idle"
  /\ opsStarted < MaxOps
  /\ opsStarted' = opsStarted + 1
  /\ requests' =
       IF conversations[c].exists /\ conversations[c].isActive
         THEN Answered(s, "history", c, "", <<>>, 200)
         ELSE Answered(s, "history", c, "", <<>>, 404)
  /\ UNCHANGED <<llmVars, pureVars, storeVars, conversations>>

\* updateConversationController
RenameConversation(s, c, title) ==
  /\ requests[s].pc = "idle"
  /\ opsStarted < MaxOps
  /\ opsStarted' = opsStarted + 1
  /\ IF Trim(title) = ""
       THEN /\ requests' = Answered(s, "rename", c, title, <<>>, 400)
            /\ UNCHANGED conversations
       ELSE IF conversations[c].exists /\ conversations[c].isActive
         THEN /\ conversations' =
                   [conversations EXCEPT ![c].title = Trim(title)]
              /\ requests' = Answered(s, "rename", c, "", <<>>, 200)
         ELSE /\ requests' = Answered(s, "rename", c, "", <<>>, 404)
              /\ UNCHANGED conversations
  /\ UNCHANGED <<llmVars, pureVars, storeVars>>

\* deleteConversationController
DeleteConversation(s, c) ==
  /\ requests[s].pc = "idle"
  /\ opsStarted < MaxOps
  /\ opsStarted' = opsStarted + 1
  /\ IF conversations[c].exists /\ conversations[c].isActive
       THEN /\ conversations' = [conversations EXCEPT ![c].isActive = FALSE]
            /\ requests' = Answered(s, "delete", c, "", <<>>, 200)
       ELSE /\ requests' = Answered(s, "delete", c, "", <<>>, 404)
            /\ UNCHANGED conversations
  /\ UNCHANGED <<llmVars, pureVars, storeVars>>

ConvInit ==
  /\ LlmIdle
  /\ PureIdle
  /\ StoreIdle
  /\ conversations \in InitialConversations
  /\ requests = [s \in Slots |-> IdleRequest]
  /\ opsStarted = 0

ConvNext ==
  \/ \E s \in Slots, title \in Titles, initial \in ChatInputs, found \in BOOLEAN :
       CreateConversation(s, title, initial, found)
  \/ \E s \in Slots, c \in ConvIds, m \in ChatInputs, found \in BOOLEAN :
       ChatLoad(s, c, m, found)
  \/ \E s \in Slots, outcome \in LlmOutcomes : LlmReturns(s, outcome)
  \/ \E s \in Slots, c \in ConvIds : GetConversationHistory(s, c)
  \/ \E s \in Slots, c \in ConvIds, title \in Titles :
       RenameConversation(s, c, title)
  \/ \E s \in Slots, c \in ConvIds : DeleteConversation(s, c)

ConvSpec == ConvInit /\ [][ConvNext]_vars

(***************************************************************************)
(* Properties                                                              *)
(***************************************************************************)

\* callLLM holds a health result and has chosen a provider or finished
DispatchPcs == {"d_call", "d_wait", "d_done"}

HcRunningPcs == {"hc_wait_openai", "hc_gemini", "hc_wait_gemini", "hc_end"}

PreferredValid == preferredProvider \in Providers

GenInflight == {c \in inflight : c.op = "gen"}

ReturnedText(i) ==
  /\ dispatchResult.kind = "text"
  /\ dispatchResult.from = genLog[i].to
  /\ dispatchResult.text = genLog[i].text

\* C1: when the health check of a dispatch reports the preferred provider
\* available, the first generation request goes to it; if that request
\* succeeds the dispatch returns its text and the other provider receives
\* no request.
C1_PreferredFirst ==
  (pc \in DispatchPcs /\ PreferredValid /\ health.avail[preferredProvider]) =>
    /\ (pc = "d_call" /\ genLog = <<>>) => cur = preferredProvider
    /\ pc = "d_done" => genLog # <<>>
    /\ genLog # <<>> => genLog[1].to = preferredProvider
    /\ (genLog # <<>> /\ genLog[1].outcome = "ok") =>
         /\ pc = "d_done"
         /\ Len(genLog) = 1
         /\ ReturnedText(1)

C1_Witness ==
  /\ pc = "d_done"
  /\ preferredProvider = "gemini"
  /\ health.avail["openai"] /\ health.avail["gemini"]
  /\ Len(genLog) = 1 /\ genLog[1].to = "gemini" /\ genLog[1].outcome = "ok"
  /\ dispatchResult.kind = "text" /\ dispatchResult.text = "gemini-text"

\* C2: when both providers are reported available and the request to the
\* preferred provider fails, the dispatch sends exactly one request to the
\* other provider before it can fail, and returns that provider's text if
\* the request succeeds.
C2_FallbackToOther ==
  (/\ pc \in DispatchPcs /\ PreferredValid
   /\ health.avail["openai"] /\ health.avail["gemini"]
   /\ genLog # <<>> /\ genLog[1].outcome = "fail") =>
    /\ genLog[1].to = preferredProvider
    /\ Len(genLog) <= 2
    /\ Len(genLog) = 1 => (pc = "d_call" /\ cur = Other(preferredProvider))
    /\ pc = "d_done" => Len(genLog) = 2
    /\ Len(genLog) = 2 => genLog[2].to = Other(preferredProvider)
    /\ (Len(genLog) = 2 /\ genLog[2].outcome = "ok") =>
         (pc = "d_done" /\ ReturnedText(2))

C2_Witness ==
  /\ pc = "d_done"
  /\ preferredProvider = "openai"
  /\ health.avail["openai"] /\ health.avail["gemini"]
  /\ Len(genLog) = 2
  /\ genLog[1].to = "openai" /\ genLog[1].outcome = "fail"
  /\ genLog[2].to = "gemini" /\ genLog[2].outcome = "ok"
  /\ dispatchResult.kind = "text" /\ dispatchResult.from = "gemini"

\* C3: a dispatch that fails always fails with 'No AI providers are
\* available', never with the error of a single provider.
C3_ProviderErrorNeverEscapes ==
  (pc = "d_done" /\ dispatchResult.kind = "error") =>
    dispatchResult.message = NoProvidersMessage

\* C4: when the health check of a dispatch reports no provider available,
\* the dispatch fails with 'No AI providers are available' and no
\* generation request is issued.
C4_ZeroAvailableNoInvocation ==
  (/\ pc \in DispatchPcs \cup {"d_after_hc"}
   /\ health.status # "none"
   /\ ~health.avail["openai"] /\ ~health.avail["gemini"]) =>
    /\ pc \in {"d_after_hc", "d_done"}
    /\ genLog = <<>>
    /\ GenInflight = {}
    /\ pc = "d_done" =>
         /\ dispatchResult.kind = "error"
         /\ dispatchResult.message = NoProvidersMessage

\* the handler saw a healthy service, the dispatcher then saw none
C4_Witness ==
  /\ pc = "d_done"
  /\ healthCheck.status = "healthy"
  /\ health.status = "unhealthy"
  /\ client["openai"] /\ client["gemini"]
  /\ dispatchResult.message = NoProvidersMessage
  /\ genLog = <<>>

\* C5: when the preferred provider is reported unavailable and the other
\* available, only the other provider receives a generation request, and
\* its text is returned if the request succeeds.
C5_UnavailablePreferredSkipped ==
  (/\ pc \in DispatchPcs /\ PreferredValid
   /\ ~health.avail[preferredProvider]
   /\ health.avail[Other(preferredProvider)]) =>
    /\ pc = "d_call" => cur = Other(preferredProvider)
    /\ Len(genLog) <= 1
    /\ pc \in {"d_wait", "d_done"} => Len(genLog) = 1
    /\ \A i \in 1..Len(genLog) : genLog[i].to = Other(preferredProvider)
    /\ \A c \in GenInflight : c.to = Other(preferredProvider)
    /\ (genLog # <<>> /\ genLog[1].outcome = "ok") =>
         (pc = "d_done" /\ ReturnedText(1))

C5_Witness ==
  /\ pc = "d_done"
  /\ preferredProvider = "gemini"
  /\ client["gemini"]
  /\ ~health.avail["gemini"] /\ health.avail["openai"]
  /\ Len(genLog) = 1
  /\ genLog[1].to = "openai" /\ genLog[1].outcome = "ok"
  /\ genLog[1].text = "openai-text"
  /\ dispatchResult.kind = "text" /\ dispatchResult.text = "openai-text"

HealthResultConsistent(h) ==
  h.status # "none" =>
    /\ h.status \in {"healthy", "unhealthy"}
    /\ h.status = "healthy" <=> (h.avail["openai"] \/ h.avail["gemini"])

\* C6: every result of healthCheck has status 'healthy' exactly when at
\* least one provider has available = true.
C6_HealthyIffSomeAvailable ==
  /\ HealthResultConsistent(healthCheck)
  /\ HealthResultConsistent(health)

\* one client configured with a failing ping, the other answering
C6_Witness ==
  /\ healthCheck.status = "healthy"
  /\ client["openai"] /\ ~healthCheck.avail["openai"]
  /\ healthCheck.avail["gemini"]
  /\ health.status = "unhealthy"

PingedProviders == {pingLog[i].to : i \in 1..Len(pingLog)}

PingSucceeded(p) ==
  \E i \in 1..Len(pingLog) : pingLog[i].to = p /\ pingLog[i].fate = "ok"

\* C7: a health check that has ended has returned a result to its caller;
\* in it every configured provider was pinged whatever the other ping did,
\* and a provider is available exactly when its own ping succeeded.
C7_HealthCheckNeverThrows ==
  /\ (hcCount["handler"] >= 1 /\ ~(hcCaller = "handler" /\ pc \in HcRunningPcs)) =>
       healthCheck.status # "none"
  /\ (hcCount["dispatch"] >= 1 /\ ~(hcCaller = "dispatch" /\ pc \in HcRunningPcs)) =>
       health.status # "none"
  /\ pc \in {"hc_end", "h_after_hc", "d_after_hc"} =>
       \A p \in Providers :
         /\ client[p] <=> p \in PingedProviders
         /\ hc.avail[p] <=> PingSucceeded(p)

\* the OpenAI ping raised, Gemini was still pinged and answered
C7_Witness ==
  /\ pc = "h_after_hc"
  /\ pingLog = <<[to |-> "openai", fate |-> "fail"], [to |-> "gemini", fate |-> "ok"]>>
  /\ ~healthCheck.avail["openai"] /\ healthCheck.avail["gemini"]
  /\ healthCheck.status = "healthy"

\* C8: a request triggers at most one health check, handler and dispatcher
\* counted together.
C8_AtMostOneHealthCheck ==
  hcCount["handler"] + hcCount["dispatch"] <= 1

\* C8 (amended): a request triggers at most two health checks, at most one
\* by its handler and at most one by the dispatcher.
C8_AtMostOneHealthCheckPerLayer ==
  /\ hcCount["handler"] <= 1
  /\ hcCount["dispatch"] <= 1
  /\ hcCount["dispatch"] = 1 => hcCount["handler"] = 1

C8_Witness ==
  /\ pc = "idle"
  /\ kind = "chat"
  /\ response.code = 200
  /\ Len(genLog) = 2
  /\ hcCount["handler"] = 1 /\ hcCount["dispatch"] = 1

\* C9: in one dispatch each provider receives at most one generation
\* request, at most two are issued, the second only after the first has
\* failed, and at most one is awaiting its answer at any time.
C9_SequentialInvocation ==
  /\ Len(genLog) <= 2
  /\ \A i, j \in 1..Len(genLog) : i # j => genLog[i].to # genLog[j].to
  /\ Len(genLog) = 2 => genLog[1].outcome = "fail"
  /\ Cardinality(GenInflight) <= 1
  /\ Cardinality({i \in 1..Len(genLog) : genLog[i].outcome = "pending"}) <= 1
  /\ \A c \in GenInflight :
       genLog # <<>> /\ genLog[Len(genLog)].to = c.to

\* the second request is awaiting its answer after the first failed
C9_Witness ==
  /\ pc = "d_wait"
  /\ Len(genLog) = 2
  /\ genLog[1].outcome = "fail" /\ genLog[2].outcome = "pending"
  /\ Cardinality(GenInflight) = 1

\* C10: every dispatch eventually completes with a text or an error, even
\* when a provider never answers its ping or its generation request.
C10_DispatchCompletes ==
  (pc = "hc_begin" /\ hcCaller = "dispatch") ~> (pc = "d_done")

\* C11: every provider a dispatch sends a generation request to was
\* reported available by the health check run inside that dispatch, whose
\* result is the one callLLM holds (one fresh check per dispatch).
C11_OnlyFreshlyAvailableInvoked ==
  pc \in DispatchPcs =>
    /\ hcCount["dispatch"] = 1
    /\ health = hc
    /\ pc = "d_call" => health.avail[cur]
    /\ \A i \in 1..Len(genLog) :
         /\ health.avail[genLog[i].to]
         /\ PingSucceeded(genLog[i].to)

\* the handler's check saw OpenAI, the dispatch's own check did not
C11_Witness ==
  /\ pc = "d_done"
  /\ preferredProvider = "openai"
  /\ healthCheck.avail["openai"]
  /\ ~health.avail["openai"] /\ health.avail["gemini"]
  /\ Len(genLog) = 1 /\ genLog[1].to = "gemini"

\* C15: a chat or insight request served while no provider is available is
\* answered 503 'AI service is currently unavailable', also when the
\* providers became unavailable after the handler's own health check.
C15_UnavailableAnswered503 ==
  (/\ pc = "idle"
   /\ kind \in RequestKinds \ {"health"}
   /\ response.code \notin {0, 400}
   /\ (healthCheck.status = "unhealthy" \/ health.status = "unhealthy")) =>
    /\ response.code = 503
    /\ response.message = UnavailableMessage

\* C16: when a message is sent on an existing conversation, the generation
\* request of the provider that answers carries every stored turn, in
\* stored order, followed by the new user message.
C16_FullHistorySent ==
  (/\ kind = "conversationChat"
   /\ pc = "d_done"
   /\ dispatchResult.kind = "text") =>
    genLog[Len(genLog)].sent =
      Append(HistoryOf(stored), [role |-> "user", content |-> message])

InsightKeys == {"summary", "keyFindings", "recommendations", "riskAssessment"}

ComparisonKeys == {"summary", "comparison", "recommendation", "riskMatrix"}

DeclaredKeys(op) ==
  IF op = "generateDocumentInsights" THEN InsightKeys ELSE ComparisonKeys

ParseOps == {"generateDocumentInsights", "generateComparisonInsights"}

\* C12: for every provider text the parse step of the insight and the
\* comparison method returns an object that has every field of the
\* declared result shape.
C12_SynthesizersWellFormed ==
  (pureOp \in ParseOps /\ output.built) =>
    /\ output.type = "object"
    /\ DeclaredKeys(pureOp) \subseteq output.keys

\* C13: when the provider text cannot be parsed, the document-insight
\* result is the fallback: summary the text unchanged, keyFindings and
\* recommendations one placeholder each, risk level 'medium', score 5, one
\* factor; nothing of it comes from the arguments.
C13_InsightsFallbackExact ==
  (/\ pureOp = "generateDocumentInsights" /\ output.built
   /\ ~JsonParse(output.response).ok) =>
    /\ ~output.parsed
    /\ DOMAIN output.value = InsightKeys
    /\ output.value.summary = output.response
    /\ output.value.keyFindings = <<"Análisis completado - ver resumen para detalles">>
    /\ output.value.recommendations = <<"Revisar el análisis detallado proporcionado">>
    /\ output.value.riskAssessment.level = "medium"
    /\ output.value.riskAssessment.score = 5
    /\ Len(output.value.riskAssessment.factors) = 1

\* an answer cut short in the middle of the object
C13_Witness ==
  /\ pureOp = "generateDocumentInsights" /\ output.built
  /\ output.response = <<"{", "summary", ":", "str">>
  /\ ~output.parsed
  /\ output.value.summary = <<"{", "summary", ":", "str">>

ExpectedLabel(analyses, i) ==
  IF analyses[i].documentName # "" THEN analyses[i].documentName
  ELSE PositionLabels[i]

ExpectedLabelSet(analyses) ==
  {ExpectedLabel(analyses, i) : i \in 1..Len(analyses)}

\* C14: when the provider text cannot be parsed and the list of documents
\* is not empty, recommendation.preferred is the label of the first
\* document, strengths, weaknesses and riskMatrix are keyed by exactly the
\* document labels (documentName, or 'Documento i' by position), and every
\* riskMatrix entry is legal 5, financial 5, operational 5.
C14_ComparisonFallbackLabels ==
  (/\ pureOp = "generateComparisonInsights" /\ output.built
   /\ ~JsonParse(output.response).ok
   /\ args.analyses # <<>>) =>
    /\ ~output.parsed
    /\ output.value.recommendation.preferred = ExpectedLabel(args.analyses, 1)
    /\ DOMAIN output.value.comparison.strengths = ExpectedLabelSet(args.analyses)
    /\ DOMAIN output.value.comparison.weaknesses = ExpectedLabelSet(args.analyses)
    /\ DOMAIN output.value.riskMatrix = ExpectedLabelSet(args.analyses)
    /\ \A n \in DOMAIN output.value.riskMatrix :
         output.value.riskMatrix[n] =
           [legal |-> 5, financial |-> 5, operational |-> 5]

\* first document unnamed, second named, provider answered with prose
C14_Witness ==
  /\ pureOp = "generateComparisonInsights" /\ output.built
  /\ ~output.parsed
  /\ Len(args.analyses) = 2
  /\ args.analyses[1].documentName = "" /\ args.analyses[2].documentName = "B"
  /\ output.value.recommendation.preferred = "Documento 1"
  /\ DOMAIN output.value.riskMatrix = {"Documento 1", "B"}

\* a is a prefix of b
IsPrefix(a, b) ==
  /\ Len(a) <= Len(b)
  /\ \A i \in 1..Len(a) : a[i] = b[i]

\* the step in which the chat request of slot s is answered 200
ChatSucceeds(s) ==
  /\ requests[s].pc = "awaitLLM"
  /\ requests[s].op = "chat"
  /\ requests'[s].status = 200

\* C17: the stored message list of every conversation only grows at its end:
\* each step of create, chat, rename and delete requests, chats on the same
\* conversation interleaved included, leaves the earlier list as a prefix
\* of the later one, and the step that answers a chat with success appends
\* exactly one user turn followed by one assistant turn.
C17_AppendOnly ==
  [][/\ \A c \in ConvIds :
          /\ IsPrefix(conversations[c].messages, conversations'[c].messages)
          /\ Len(conversations'[c].messages) - Len(conversations[c].messages)
               \in {0, 2}
     /\ \A s \in Slots :
          ChatSucceeds(s) =>
            LET old == conversations[requests[s].conv].messages
                new == conversations'[requests[s].conv].messages
            IN /\ Len(new) = Len(old) + 2
               /\ new[Len(old) + 1].role = "user"
               /\ new[Len(old) + 1].content = Trim(requests[s].message)
               /\ new[Len(old) + 2].role = "assistant"]_vars

\* two chats that loaded the same list of the same conversation both succeeded
C17_Witness ==
  /\ requests[1].op = "chat" /\ requests[1].status = 200
  /\ requests[2].op = "chat" /\ requests[2].status = 200
  /\ requests[1].conv = requests[2].conv
  /\ requests[1].loaded = requests[2].loaded
  /\ Len(conversations[requests[1].conv].messages)
       = Len(requests[1].loaded) + 4

\* the spellings that name Ecuador
EcuadorSpellings == {"Ecuador", "ecuador", "ECUADOR"}

\* C18: the document-insight prompt embeds the Ecuador legal-framework block
\* when the country handed in is Ecuador, the generic text naming the country
\* for every other country name, and a prompt is built for every name.
C18_LegalContextByCountry ==
  (pureOp = "generateDocumentInsights.markdown" /\ output.built) =>
    /\ prompt.built
    /\ args.analysis.hasCountry =>
         /\ prompt.system.country = args.analysis.country
         /\ args.analysis.country \in EcuadorSpellings =>
              prompt.system.legalContext = EcuadorLegalContext
         /\ args.analysis.country \notin EcuadorSpellings =>
              prompt.system.legalContext =
                <<"Marco legal general para contratación pública en ",
                  args.analysis.country,
                  ". Se recomienda consultar la legislación local específica.">>

\* an unknown country got the generic text
C18_Witness ==
  /\ pureOp = "generateDocumentInsights.markdown"
  /\ output.built
  /\ args.analysis.hasCountry
  /\ args.analysis.country = "Wakanda"
  /\ prompt.system.legalContext[2] = "Wakanda"

C20_InputsUnchanged == [][calls' = calls => args' = args]_vars

\* chatWithAgent returned for a context holding a text longer than a preview
C20_Witness ==
  /\ pureOp = "chatWithAgent"
  /\ output.built
  /\ \E i \in 1..Len(args.context.documents) :
       args.context.documents[i].extractedText.len > PreviewLimit

\* the smaller of two numbers
Min(a, b) == IF a < b THEN a ELSE b

\* C21: in the workspace-chat prompt every document with a non-empty
\* extracted text has a preview made of the first min(length, 2000)
\* characters of that text, followed by '...' exactly when the text is
\* longer than 2000 characters; a document with an empty text has no preview.
C21_PreviewCap ==
  (pureOp = "chatWithAgent" /\ prompt.built) =>
    /\ Len(prompt.system.documentContext) = Len(args.context.documents)
    /\ \A i \in 1..Len(args.context.documents) :
         LET text == args.context.documents[i].extractedText
             entry == prompt.system.documentContext[i]
         IN /\ entry.hasPreview <=> text.len > 0
            /\ entry.hasPreview =>
                 /\ entry.textPreview.id = text.id
                 /\ entry.textPreview.len = Min(text.len, 2000)
                 /\ (entry.ellipsis = "...") <=> text.len > 2000
                 /\ entry.ellipsis \in {"", "..."}

\* a prompt holding a text of exactly 2000 characters and a longer one
C21_Witness ==
  /\ pureOp = "chatWithAgent"
  /\ prompt.built
  /\ Len(args.context.documents) = 2
  /\ args.context.documents[1].extractedText.len = 2000
  /\ args.context.documents[2].extractedText.len = 2001
  /\ prompt.system.documentContext[1].ellipsis = ""
  /\ prompt.system.documentContext[2].ellipsis = "..."
  /\ prompt.system.documentContext[2].textPreview.len = 2000

\* the requests addressed to an existing conversation
ConversationOps == {"chat", "history", "rename", "delete"}

SavesTurns(s, c) ==
  /\ requests[s].pc = "awaitLLM"
  /\ requests[s].conv = c
  /\ requests'[s].status \in {200, 201}

\* C26: the stored messages and lastMessageAt of a conversation change only
\* in the step that answers a chat (or a create with an initial message) with
\* success, and then by one user turn together with its assistant turn; a
\* chat answered 400, 404, 500 or 503 leaves both as they were.
C26_FailedChatStoresNothing ==
  [][/\ \A c \in ConvIds :
          (/\ conversations[c].exists
           /\ \/ conversations'[c].messages # conversations[c].messages
              \/ conversations'[c].lastMessageAt # conversations[c].lastMessageAt)
          => \E s \in Slots :
               /\ SavesTurns(s, c)
               /\ Len(conversations'[c].messages)
                    = Len(conversations[c].messages) + 2
     /\ \A s \in Slots :
          (/\ requests[s].pc = "awaitLLM"
           /\ requests[s].op = "chat"
           /\ requests'[s].status \in {500, 503})
          => conversations' = conversations]_vars

\* a chat that awaited the LLM layer was answered 503 or 500
C26_Witness ==
  \E s \in Slots :
    /\ requests[s].op = "chat"
    /\ requests[s].pc = "idle"
    /\ requests[s].status \in {500, 503}
    /\ conversations[requests[s].conv].messages = requests[s].loaded

\* C27: a create-conversation request answered without success has stored
\* no conversation.
C27_FailedCreateStoresNothing ==
  \A s \in Slots :
    (/\ requests[s].op = "create"
     /\ requests[s].pc = "idle"
     /\ requests[s].status \notin {0, 201})
    => ~(requests[s].conv \in ConvIds /\ conversations[requests[s].conv].exists)

\* the handlers of agent.controller.ts
AgentKinds == {"chat", "documentChat", "documentInsights", "comparisonInsights"}

\* C28: the llmProvider field of a successful agent response is the configured
\* preferred provider, whichever provider produced the content.
C28_LlmProviderIsPreferred ==
  (pc = "idle" /\ kind \in AgentKinds /\ response.code = 200) =>
    response.llmProvider = preferredProvider

\* the fallback provider produced the content of a successful response
C28_Witness ==
  /\ pc = "idle"
  /\ kind \in AgentKinds
  /\ response.code = 200
  /\ preferredProvider = "openai"
  /\ dispatchResult.from = "gemini"
  /\ response.content = "gemini-text"
  /\ response.llmProvider = "openai"

\* C29: an empty or missing provider content is a success: the text of a
\* successful dispatch is never empty (the placeholder stands in), and a
\* generation request that succeeded is the last one of its dispatch.
C29_EmptyAnswerIsSuccess ==
  /\ dispatchResult.kind = "text" => dispatchResult.text # ""
  /\ \A i \in 1..Len(genLog) :
       genLog[i].outcome = "ok" =>
         /\ i = Len(genLog)
         /\ genLog[i].text # ""
         /\ pc \in DispatchPcs \cup {"idle"}
         /\ pc \in {"d_done", "idle"} =>
              /\ dispatchResult.kind = "text"
              /\ dispatchResult.text = genLog[i].text

\* the placeholder was returned while the other provider was available
C29_Witness ==
  /\ pc = "idle"
  /\ response.code = 200
  /\ response.content = "No response generated"
  /\ Len(genLog) = 1
  /\ genLog[1].outcome = "ok"
  /\ health.avail[Other(genLog[1].to)]

\* C30: a provider without a client (no API key) is never contacted: no ping
\* and no generation request is issued to it, and every health result reports
\* it unavailable.
C30_UnconfiguredNeverContacted ==
  \A p \in Providers :
    ~client[p] =>
      /\ \A c \in inflight : c.to # p
      /\ \A i \in 1..Len(pingLog) : pingLog[i].to # p
      /\ \A i \in 1..Len(genLog) : genLog[i].to # p
      /\ ~hc.avail[p]
      /\ ~healthCheck.avail[p]
      /\ ~health.avail[p]

\* the preferred provider has no client and the other one served the request
C30_Witness ==
  /\ pc = "idle"
  /\ response.code = 200
  /\ preferredProvider \in Providers
  /\ ~client[preferredProvider]
  /\ Len(genLog) = 1
  /\ Len(pingLog) = 1
  /\ genLog[1].to = Other(preferredProvider)

\* ---------------------------------------------------------------------
\* Analysis and agent handlers over the workspace and analysis stores.
\* The LLM layer is seen from the handler: its health check answers
\* unhealthy, or the generation throws, or it returns a text.
\* ---------------------------------------------------------------------

DocumentTypes == {"pliego", "propuesta", "contrato"}

\* documentType values a request may carry
DocumentTypeInputs == {"pliego", "propuesta", "otro"}

GenerationOutcomes == {"unhealthy", "throws", "text"}

AnalysisEndpoints ==
  {"analyzeDocument", "documentInsights", "technicalAnalysis", "compareDocuments"}

AgentEndpoints ==
  {"agentChat", "documentChat", "agentDocumentInsights", "comparisonInsights",
   "conversationChat"}

\* workspace 1 may have lost a member's account, which soft-deletes it
InitialWorkspaces ==
  {[w \in WsIds |->
      IF w = 1
        THEN [ownerId |-> "u1", members |-> {"u2"}, deleted |-> d,
              analysisCount |-> 0]
        ELSE [ownerId |-> "u2", members |-> {}, deleted |-> FALSE,
              analysisCount |-> 0]] :
     d \in BOOLEAN}

AiAnalysis(docType) == [source |-> "ai", documentType |-> docType]

\* generatePliegoAnalysis / generatePropuestaAnalysis / generateContratoAnalysis
SimulateDocumentAnalysis(docType) == [source |-> "simulated", documentType |-> docType]

CompletedAnalysis(w, docType, content) ==
  [workspaceId |-> w, documentType |-> docType, aiAnalysis |-> content,
   status |-> "completed"]

InitialAnalyses ==
  <<CompletedAnalysis(1, "pliego", AiAnalysis("pliego")),
    CompletedAnalysis(1, "propuesta", AiAnalysis("propuesta")),
    CompletedAnalysis(2, "contrato", AiAnalysis("contrato"))>>

\* ids a request may name: the initial ones and the next one created
AnalysisIds == 1..(Len(InitialAnalyses) + 1)

\* analysisIds lists a request may carry
IdSelections == {{}, {1, 2}, {1, 3}}

StoredIds == 1..Len(storedAnalyses)

\* Workspace.findOne({_id, $or: [owner, member], deletedAt: null})
HasWorkspaceAccess(u, w) ==
  /\ w \in WsIds
  /\ ~workspaces[w].deleted
  /\ (workspaces[w].ownerId = u \/ u \in workspaces[w].members)

\* the populated workspace's ownerId / members compared with the user
IsOwnerOrMember(u, w) ==
  /\ w \in WsIds
  /\ (workspaces[w].ownerId = u \/ u \in workspaces[w].members)

\* DocumentAnalysis.find({workspaceId, status: 'completed'})
CompletedOf(w) ==
  {a \in StoredIds : /\ storedAnalyses[a].workspaceId = w
                     /\ storedAnalyses[a].status = "completed"}

\* DocumentAnalysis.find({_id: {$in: ids}, workspaceId, status: 'completed'})
CompletedAmong(w, ids) == CompletedOf(w) \cap ids

AnalysisStarted(s, op, u, w, docType, context) ==
  [analysisRequests EXCEPT ![s] =
     [pc |-> "await", op |-> op, user |-> u, ws |-> w, documentType |-> docType,
      context |-> context, invoked |-> FALSE, returned |-> {}, counted |-> FALSE,
      fallback |-> FALSE, status |-> 0]]

AnalysisRefused(s, op, u, w, code) ==
  [analysisRequests EXCEPT ![s] =
     [pc |-> "idle", op |-> op, user |-> u, ws |-> w, documentType |-> "",
      context |-> {}, invoked |-> FALSE, returned |-> {}, counted |-> FALSE,
      fallback |-> FALSE, status |-> code]]

AnalysisFinished(s, code, invoked, returned, counted, fallback) ==
  [analysisRequests EXCEPT ![s].pc = "idle", ![s].status = code,
                           ![s].invoked = invoked, ![s].returned = returned,
                           ![s].counted = counted, ![s].fallback = fallback]

\* Workspace.findByIdAndUpdate(w, {$inc: {'usage.analysisCount': 1}})
IncAnalysisCount(w) ==
  [workspaces EXCEPT ![w].analysisCount = @ + 1]

\* a request is served in the first free slot
AnalysisReceive(s) ==
  /\ analysisRequests[s].pc = "idle"
  /\ \A t \in AnalysisSlots : t < s => analysisRequests[t].pc # "idle"
  /\ analysisOps < MaxAnalysisOps
  /\ analysisOps' = analysisOps + 1

\* analyzeDocumentController up to the provider call
AnalyzeDocument(s, u, w, docType) ==
  /\ AnalysisReceive(s)
  /\ analysisRequests' =
       IF docType \notin DocumentTypes
         THEN AnalysisRefused(s, "analyzeDocument", u, w, 400)
       ELSE IF ~HasWorkspaceAccess(u, w)
         THEN AnalysisRefused(s, "analyzeDocument", u, w, 404)
       ELSE AnalysisStarted(s, "analyzeDocument", u, w, docType, {})
  /\ UNCHANGED <<llmVars, pureVars, convVars, workspaces, storedAnalyses>>

\* getDocumentInsightsController / getTechnicalAnalysisController of the
\* analysis routes, up to the provider call
InsightsOnAnalysis(s, op, u, a) ==
  /\ AnalysisReceive(s)
  /\ analysisRequests' =
       IF a \notin StoredIds
         THEN AnalysisRefused(s, op, u, 0, 404)
       ELSE IF ~HasWorkspaceAccess(u, storedAnalyses[a].workspaceId)
         THEN AnalysisRefused(s, op, u, storedAnalyses[a].workspaceId, 404)
       ELSE AnalysisStarted(s, op, u, storedAnalyses[a].workspaceId, "", {a})
  /\ UNCHANGED <<llmVars, pureVars, convVars, workspaces, storedAnalyses>>

\* compareDocumentsController / getComparisonInsightsController up to the
\* provider call
CompareDocuments(s, op, u, w, ids) ==
  /\ AnalysisReceive(s)
  /\ analysisRequests' =
       IF Cardinality(ids) < 2
         THEN AnalysisRefused(s, op, u, w, 400)
       ELSE IF ~HasWorkspaceAccess(u, w)
         THEN AnalysisRefused(s, op, u, w, 404)
       ELSE IF Cardinality(CompletedAmong(w, ids)) < 2
         THEN AnalysisRefused(s, op, u, w, 400)
       ELSE AnalysisStarted(s, op, u, w, "", CompletedAmong(w, ids))
  /\ UNCHANGED <<llmVars, pureVars, convVars, workspaces, storedAnalyses>>

\* chatWithAgentController up to the provider call
ChatWithAgent(s, u, w, ids) ==
  /\ AnalysisReceive(s)
  /\ analysisRequests' =
       IF ~HasWorkspaceAccess(u, w)
         THEN AnalysisRefused(s, "agentChat", u, w, 404)
       ELSE AnalysisStarted(s, "agentChat", u, w, "",
                            IF ids = {} THEN CompletedOf(w)
                                        ELSE CompletedAmong(w, ids))
  /\ UNCHANGED <<llmVars, pureVars, convVars, workspaces, storedAnalyses>>

\* chatWithDocumentController, the agent's getDocumentInsightsController
\* and a conversation turn on the conversation's analysis, up to the
\* provider call
ChatOnAnalysis(s, op, u, a) ==
  /\ AnalysisReceive(s)
  /\ analysisRequests' =
       IF a \notin StoredIds \/ a \notin CompletedOf(storedAnalyses[a].workspaceId)
         THEN AnalysisRefused(s, op, u, 0, 404)
       ELSE IF ~HasWorkspaceAccess(u, storedAnalyses[a].workspaceId)
         THEN AnalysisRefused(s, op, u, storedAnalyses[a].workspaceId,
                              IF op = "agentDocumentInsights" THEN 403 ELSE 404)
       ELSE AnalysisStarted(s, op, u, storedAnalyses[a].workspaceId, "", {a})
  /\ UNCHANGED <<llmVars, pureVars, convVars, workspaces, storedAnalyses>>

\* getAnalysisByIdController
GetAnalysisById(s, u, a) ==
  /\ AnalysisReceive(s)
  /\ analysisRequests' =
       IF a \notin StoredIds
         THEN AnalysisRefused(s, "getAnalysisById", u, 0, 404)
       ELSE IF ~IsOwnerOrMember(u, storedAnalyses[a].workspaceId)
         THEN AnalysisRefused(s, "getAnalysisById", u,
                              storedAnalyses[a].workspaceId, 403)
       ELSE [AnalysisRefused(s, "getAnalysisById", u,
                             storedAnalyses[a].workspaceId, 200)
               EXCEPT ![s].returned = {a}]
  /\ UNCHANGED <<llmVars, pureVars, convVars, workspaces, storedAnalyses>>

\* variant: an unavailable provider fails the request instead of falling
\* back to the simulated analysis
AnalyzeDocumentReturnsNoFallback(s, outcome) ==
  LET r == analysisRequests[s] IN
  /\ r.pc = "await"
  /\ r.op = "analyzeDocument"
  /\ IF outcome = "text"
       THEN /\ storedAnalyses' =
                 Append(storedAnalyses,
                        CompletedAnalysis(r.ws, r.documentType,
                                          AiAnalysis(r.documentType)))
            /\ workspaces' = IncAnalysisCount(r.ws)
            /\ analysisRequests' =
                 AnalysisFinished(s, 200, TRUE, {Len(storedAnalyses) + 1}, TRUE, FALSE)
       ELSE /\ analysisRequests' =
                 AnalysisFinished(s, 500, outcome = "throws", {}, FALSE, FALSE)
            /\ UNCHANGED <<workspaces, storedAnalyses>>
  /\ UNCHANGED <<llmVars, pureVars, convVars, analysisOps>>

\* analyzeDocumentController from the provider's answer on:
\* analyzeDocumentWithAI (simulateDocumentAnalysis in its catch),
\* DocumentAnalysis.create, the usage $inc and the response
AnalyzeDocumentReturns(s, outcome) ==
  LET r == analysisRequests[s]
      content == IF outcome = "text" THEN AiAnalysis(r.documentType)
                                     ELSE SimulateDocumentAnalysis(r.documentType)
  IN
  /\ r.pc = "await"
  /\ r.op = "analyzeDocument"
  /\ storedAnalyses' =
       Append(storedAnalyses, CompletedAnalysis(r.ws, r.documentType, content))
  /\ workspaces' = IncAnalysisCount(r.ws)
  /\ analysisRequests' =
       AnalysisFinished(s, 200, outcome # "unhealthy", {Len(storedAnalyses) + 1},
                        TRUE, outcome # "text")
  /\ UNCHANGED <<llmVars, pureVars, convVars, analysisOps>>

\* getDocumentInsightsController / getTechnicalAnalysisController from the
\* provider's answer on: 503 when unhealthy, the fallback answer of the
\* inner catch, or the $inc and the AI answer
InsightsOnAnalysisReturns(s, outcome) ==
  LET r == analysisRequests[s] IN
  /\ r.pc = "await"
  /\ r.op \in {"documentInsights", "technicalAnalysis"}
  /\ CASE outcome = "unhealthy" ->
            /\ analysisRequests' = AnalysisFinished(s, 503, FALSE, {}, FALSE, FALSE)
            /\ UNCHANGED workspaces
       [] outcome = "throws" ->
            /\ analysisRequests' =
                 AnalysisFinished(s, 200, TRUE, r.context, FALSE, TRUE)
            /\ UNCHANGED workspaces
       [] OTHER ->
            /\ workspaces' = IncAnalysisCount(r.ws)
            /\ analysisRequests' =
                 AnalysisFinished(s, 200, TRUE, r.context, TRUE, FALSE)
  /\ UNCHANGED <<llmVars, pureVars, convVars, storedAnalyses, analysisOps>>

\* compareDocumentsController from generateComparativeAnalysis on
\* (generateFallbackComparison when unhealthy or on an error), the $inc
\* and the response
CompareDocumentsReturns(s, outcome) ==
  LET r == analysisRequests[s] IN
  /\ r.pc = "await"
  /\ r.op = "compareDocuments"
  /\ workspaces' = IncAnalysisCount(r.ws)
  /\ analysisRequests' =
       AnalysisFinished(s, 200, outcome # "unhealthy", r.context, TRUE,
                        outcome # "text")
  /\ UNCHANGED <<llmVars, pureVars, convVars, storedAnalyses, analysisOps>>

\* the agent handlers from the health check on: 503 when unhealthy, the
\* global error handler's 500 when the generation throws, or the answer
AgentReturns(s, outcome) ==
  LET r == analysisRequests[s] IN
  /\ r.pc = "await"
  /\ r.op \in AgentEndpoints
  /\ analysisRequests' =
       CASE outcome = "unhealthy" -> AnalysisFinished(s, 503, FALSE, {}, FALSE, FALSE)
         [] outcome = "throws" -> AnalysisFinished(s, 500, TRUE, {}, FALSE, FALSE)
         [] OTHER -> AnalysisFinished(s, 200, TRUE, r.context, FALSE, FALSE)
  /\ UNCHANGED <<llmVars, pureVars, convVars, workspaces, storedAnalyses,
                 analysisOps>>

AnalysisInit ==
  /\ LlmIdle
  /\ PureIdle
  /\ ConvIdle
  /\ workspaces \in InitialWorkspaces
  /\ storedAnalyses = InitialAnalyses
  /\ analysisRequests = [s \in AnalysisSlots |-> IdleAnalysisRequest]
  /\ analysisOps = 0

AnalysisNext ==
  \/ \E s \in AnalysisSlots, u \in Users, w \in WsIds,
        docType \in DocumentTypeInputs :
       AnalyzeDocument(s, u, w, docType)
  \/ \E s \in AnalysisSlots, op \in {"documentInsights", "technicalAnalysis"},
        u \in Users, a \in AnalysisIds :
       InsightsOnAnalysis(s, op, u, a)
  \/ \E s \in AnalysisSlots, op \in {"compareDocuments", "comparisonInsights"},
        u \in Users, w \in WsIds, ids \in IdSelections :
       CompareDocuments(s, op, u, w, ids)
  \/ \E s \in AnalysisSlots, u \in Users, w \in WsIds, ids \in IdSelections :
       ChatWithAgent(s, u, w, ids)
  \/ \E s \in AnalysisSlots,
        op \in {"documentChat", "agentDocumentInsights", "conversationChat"},
        u \in Users, a \in AnalysisIds :
       ChatOnAnalysis(s, op, u, a)
  \/ \E s \in AnalysisSlots, u \in Users, a \in AnalysisIds :
       GetAnalysisById(s, u, a)
  \/ \E s \in AnalysisSlots, outcome \in GenerationOutcomes :
       AnalyzeDocumentReturns(s, outcome)
  \/ \E s \in AnalysisSlots, outcome \in GenerationOutcomes :
       InsightsOnAnalysisReturns(s, outcome)
  \/ \E s \in AnalysisSlots, outcome \in GenerationOutcomes :
       CompareDocumentsReturns(s, outcome)
  \/ \E s \in AnalysisSlots, outcome \in GenerationOutcomes :
       AgentReturns(s, outcome)

AnalysisSpec == AnalysisInit /\ [][AnalysisNext]_vars

\* C22: a valid analyze-document request that is answered is answered 200
\* with exactly one new stored analysis of status 'completed' in its
\* workspace, holding the simulated analysis of its document type when the
\* provider was unavailable or the generation failed
C22_AnalyzeStoresOneCompleted ==
  [][\A s \in AnalysisSlots :
       (/\ analysisRequests[s].pc = "await"
        /\ analysisRequests[s].op = "analyzeDocument"
        /\ analysisRequests'[s].pc = "idle")
       => LET r == analysisRequests'[s]
              new == storedAnalyses'[Len(storedAnalyses')]
          IN /\ r.status = 200
             /\ Len(storedAnalyses') = Len(storedAnalyses) + 1
             /\ SubSeq(storedAnalyses', 1, Len(storedAnalyses)) = storedAnalyses
             /\ new.status = "completed"
             /\ new.workspaceId = r.ws
             /\ new.documentType = r.documentType
             /\ r.returned = {Len(storedAnalyses')}
             /\ r.fallback => new.aiAnalysis = SimulateDocumentAnalysis(r.documentType)
             /\ ~r.fallback => new.aiAnalysis = AiAnalysis(r.documentType)]_vars

C22_Witness ==
  \E s \in AnalysisSlots :
    /\ analysisRequests[s].op = "analyzeDocument"
    /\ analysisRequests[s].pc = "idle"
    /\ analysisRequests[s].status = 200
    /\ analysisRequests[s].fallback
    /\ ~analysisRequests[s].invoked
    /\ Len(storedAnalyses) = Len(InitialAnalyses) + 1
    /\ storedAnalyses[Len(storedAnalyses)].aiAnalysis.source = "simulated"

\* C23: every analysis endpoint's request answered 200 has incremented its
\* workspace's usage.analysisCount, fallback answers included
C23_SuccessCounts ==
  \A s \in AnalysisSlots :
    (/\ analysisRequests[s].op \in AnalysisEndpoints
     /\ analysisRequests[s].pc = "idle"
     /\ analysisRequests[s].status = 200)
    => analysisRequests[s].counted

\* C24: a provider is invoked and analysis content is returned only for a
\* user who is owner or member of the request's workspace, which is not
\* deleted, and the analyses used all belong to that workspace
C24_OnlyWithWorkspaceAccess ==
  \A s \in AnalysisSlots :
    LET r == analysisRequests[s] IN
    (r.pc = "await" \/ r.invoked \/ r.returned # {})
    => /\ HasWorkspaceAccess(r.user, r.ws)
       /\ \A a \in r.context \cup r.returned :
            /\ a \in StoredIds
            /\ storedAnalyses[a].workspaceId = r.ws

====
